---- MODULE Spec2Model ----
(***************************************************************************)
(* Model of utilities/poisson_test.py ("Utilities for testing              *)
(* poissoneity"), whose compiled form is carried in                        *)
(* src/Logic Trees/gmpe_logic_tree_v2.tex, lines 77-150.                   *)
(*                                                                         *)
(* The module keeps no state between calls.  A behaviour is one call of    *)
(* one of its functions: the arguments are drawn when the call is made,    *)
(* and the state afterwards holds the arguments, the returned value (or    *)
(* the exception that ended the call), the lines the call printed and the  *)
(* artists the call added to the axes (plot_histogram and annotate).       *)
(*                                                                         *)
(* Numbers.  Timestamps, window ends and bin widths are whole numbers of   *)
(* ticks.  Every other real number the code computes is kept exactly: a    *)
(* rational is a record [n, d] in lowest terms with d > 0, nan is          *)
(* [n |-> 0, d |-> 0].  Values of library functions that are not rational  *)
(* (square roots, distribution tails, the KS p-value) are kept as the      *)
(* application they are: the function and its exact arguments.             *)
(***************************************************************************)
EXTENDS Integers, Sequences, FiniteSets, TLC

VARIABLES pc, fn, args, ret, exc, out, axes, heap, heap0, calls

\* One call on its own: its position, arguments, value, exception, output and
\* what it drew on the axes.
call == <<pc, fn, args, ret, exc, out, axes>>

\* Two calls in flight: the arrays and the window they were handed (heap, and
\* heap0 as they were at the start) and the frame of each call.
flight == <<heap, heap0, calls>>

vars == <<pc, fn, args, ret, exc, out, axes, heap, heap0, calls>>

(***************************************************************************)
(* Bounds of the model.                                                    *)
(***************************************************************************)
MaxTime == 4
MaxEvents == 3
MaxStep == 3
MaxPValues == 3
MaxZones == 2

\* Fixed-point resolution of logarithms and the number of series terms kept.
LogScale == 20000
LogTerms == 12

(***************************************************************************)
(* Exact arithmetic.                                                       *)
(***************************************************************************)
Abs(x) == IF x < 0 THEN -x ELSE x

RECURSIVE GCD(_, _)
GCD(a, b) == IF b = 0 THEN a ELSE GCD(b, a % b)

NaN == [n |-> 0, d |-> 0]

IsNaN(x) == x.d = 0 /\ x.n = 0

\* n / d in lowest terms; x/0 is +inf or -inf ([n |-> 1 or -1, d |-> 0]) for x # 0.
Rat(n, d) ==
  IF d = 0 THEN [n |-> IF n > 0 THEN 1 ELSE IF n < 0 THEN 0 - 1 ELSE 0, d |-> 0]
  ELSE LET g == GCD(Abs(n), Abs(d))
           s == IF d < 0 THEN -1 ELSE 1
       IN [n |-> (s * n) \div g, d |-> (s * d) \div g]

Whole(i) == [n |-> i, d |-> 1]

RatAdd(x, y) == IF IsNaN(x) \/ IsNaN(y) THEN NaN ELSE Rat(x.n * y.d + y.n * x.d, x.d * y.d)

RatSub(x, y) == IF IsNaN(x) \/ IsNaN(y) THEN NaN ELSE Rat(x.n * y.d - y.n * x.d, x.d * y.d)

RatMul(x, y) == IF IsNaN(x) \/ IsNaN(y) THEN NaN ELSE Rat(x.n * y.n, x.d * y.d)

\* True division of finite numbers; 0/0 is nan and x/0 is inf, as numpy gives them.
RatDiv(x, y) == IF IsNaN(x) \/ IsNaN(y) THEN NaN ELSE Rat(x.n * y.d, x.d * y.n)

RatLess(x, y) == x.n * y.d < y.n * x.d

CeilDiv(a, b) == -((-a) \div b)

RECURSIVE SumInts(_)
SumInts(s) == IF s = <<>> THEN 0 ELSE Head(s) + SumInts(Tail(s))

\* Python's builtin sum(): starts from the integer 0 and adds the items in order.
RECURSIVE PySum(_)
PySum(s) == IF s = <<>> THEN Whole(0) ELSE RatAdd(s[Len(s)], PySum(SubSeq(s, 1, Len(s) - 1)))

(***************************************************************************)
(* numpy and scipy calls the module makes.                                 *)
(***************************************************************************)
\* A range that also yields stop when stop lies on the grid.
ArangeInclusive(start, stop, step) ==
  LET len == IF stop >= start THEN (stop - start) \div step + 1 ELSE 0
  IN [i \in 1..len |-> start + (i - 1) * step]

\* np.arange(start, stop, step): ceil((stop - start) / step) values from start.
Arange(start, stop, step) ==
  LET len == IF stop > start THEN CeilDiv(stop - start, step) ELSE 0
  IN [i \in 1..len |-> start + (i - 1) * step]

\* A histogram whose bins are open on the left and closed on the right.
HistogramRightClosed(a, edges) ==
  LET m == IF edges = <<>> THEN 0 ELSE Len(edges) - 1
  IN [j \in 1..m |->
        Cardinality({i \in DOMAIN a : edges[j] < a[i] /\ a[i] <= edges[j + 1]})]

\* A histogram whose last bin is half-open like the others.
HistogramHalfOpen(a, edges) ==
  LET m == IF edges = <<>> THEN 0 ELSE Len(edges) - 1
  IN [j \in 1..m |->
        Cardinality({i \in DOMAIN a : edges[j] <= a[i] /\ a[i] < edges[j + 1]})]

\* np.histogram(a, bins=edges)[0]: bin j is [edges[j], edges[j+1]), but the last
\* bin also holds its right edge.  Fewer than two edges make no bin.
Histogram(a, edges) ==
  LET m == IF edges = <<>> THEN 0 ELSE Len(edges) - 1
  IN [j \in 1..m |->
        Cardinality({i \in DOMAIN a :
                       /\ edges[j] <= a[i]
                       /\ IF j = m THEN a[i] <= edges[j + 1] ELSE a[i] < edges[j + 1]})]

\* ndarray.mean(): nan for an empty array.
Mean(counts) == Rat(SumInts(counts), Len(counts))

\* stats.chi2.sf(x, df): the upper tail of chi-square with df degrees of freedom
\* at x; nan when x is nan or df is not positive.
Chi2Sf(x, df) == [f |-> "chi2.sf", x |-> x, a |-> df, nan |-> IsNaN(x) \/ df <= 0]

\* stats.norm.sf(x, loc): the upper tail of the normal distribution with mean loc
\* and unit scale at x.
NormSf(x, loc) == [f |-> "norm.sf", x |-> x, a |-> loc, nan |-> FALSE]

\* np.sqrt(counts + 0.375), elementwise: each value is kept as its radicand.
Sqrt(q) == [sqrt |-> q]

\* np.diff(times): the differences of consecutive elements.
Diff(times) == [i \in 1..(Len(times) - 1) |-> times[i + 1] - times[i]]

\* stats.kstest(rvs, cdf)[1]: the p-value of the one-sample KS test of the sample
\* against the named distribution with its standard parameters.
KsTestPValue(rvs, cdf) ==
  [f |-> "kstest", rvs |-> rvs, cdf |-> cdf, nan |-> \E i \in DOMAIN rvs : IsNaN(rvs[i])]

\* The stacked arrays without the transposition: one row per array.
VstackNoTranspose(tup) == tup

\* np.vstack(tup).T: the arrays of the tuple become the columns; row j holds
\* the j-th entry of every array.
VstackT(tup) == [j \in 1..Len(tup[1]) |-> [i \in 1..Len(tup) |-> tup[i][j]]]

\* a / b rounded to the nearest integer, for a >= 0 and b > 0.
RoundDiv(a, b) == (2 * a + b) \div (2 * b)

\* np.log(p) for p > 0, in units of 1 / LogScale: ln(p) = 2 * atanh(z) with
\* z = (p - 1) / (p + 1), the series z + z^3/3 + z^5/5 + ... cut after LogTerms
\* terms.  |z| < 1, so every product stays below LogScale^2.
RECURSIVE AtanhSeries(_, _, _)
AtanhSeries(zpow, zsq, k) ==
  IF k >= LogTerms THEN 0
  ELSE RoundDiv(zpow, 2 * k + 1) + AtanhSeries(RoundDiv(zpow * zsq, LogScale), zsq, k + 1)

Ln(p) ==
  LET z == RoundDiv(Abs(p.n - p.d) * LogScale, p.n + p.d)
      zsq == RoundDiv(z * z, LogScale)
      magnitude == 2 * AtanhSeries(z, zsq, 0)
  IN IF p.n < p.d THEN 0 - magnitude ELSE magnitude

RECURSIVE SumLn(_)
SumLn(row) == IF row = <<>> THEN 0 ELSE Ln(row[Len(row)]) + SumLn(SubSeq(row, 1, Len(row) - 1))

\* The sum of the logarithms without the factor -2.
SumLogOnly(row) == 0 - SumLn(row)

\* Xsq = -2 * np.sum(np.log(pvalues)) for positive p-values, in units of 1 / LogScale.
FisherStatisticValue(row) == 0 - 2 * SumLn(row)

\* stats.combine_pvalues(row, method='fisher')[1]: the statistic is
\* -2 * sum(log(p)), the p-value its chi-square upper tail with 2 * len(row)
\* degrees of freedom.  log of a negative number is nan, log(0) is -inf, so a
\* zero among non-negative values gives the statistic +inf and the p-value 0.0.
\* approx is the finite statistic in units of 1 / LogScale (0 when not finite).
FisherStatistic(row) ==
  LET val == IF \E i \in DOMAIN row : row[i].n < 0 THEN "nan"
             ELSE IF \E i \in DOMAIN row : row[i].n = 0 THEN "inf"
             ELSE "finite"
  IN [neg2sumlog |-> row, val |-> val,
      approx |-> IF val = "finite" THEN FisherStatisticValue(row) ELSE 0]

FisherPValue(row) ==
  LET Xsq == FisherStatistic(row)
  IN [f |-> "chi2.sf", x |-> Xsq, a |-> 2 * Len(row), nan |-> Xsq.val = "nan"]

\* stats.combine_pvalues(row, method='stouffer')[1]: norm.sf of
\* sum(norm.isf(p)) / sqrt(len(row)).  norm.isf is nan outside [0, 1], +inf at
\* 0 and -inf at 1, so the sum is nan as well when the row holds both a 0 and
\* a 1 (inf - inf), and norm.sf(nan) is nan.
StoufferPValue(row) ==
  [f |-> "norm.sf", x |-> [sumisf |-> row, oversqrt |-> Len(row)], a |-> 0,
   nan |-> \/ \E i \in DOMAIN row : row[i].n < 0 \/ row[i].n > row[i].d
           \/ /\ \E i \in DOMAIN row : row[i].n = 0
              /\ \E i \in DOMAIN row : row[i].n = row[i].d]

\* Fisher's method applied pairwise: the first two values are combined, then
\* that result with the third, and so on.
RECURSIVE SequentialFisher(_)
SequentialFisher(row) ==
  IF Len(row) <= 2 THEN FisherPValue(row)
  ELSE [f |-> "chi2.sf",
        x |-> [neg2sumlog |-> <<SequentialFisher(SubSeq(row, 1, Len(row) - 1)), row[Len(row)]>>,
               val |-> FisherStatistic(row).val],
        a |-> 4, nan |-> FisherStatistic(row).val = "nan"]

ScipyCombineSequential(row, method) ==
  IF method = "fisher" THEN SequentialFisher(row) ELSE StoufferPValue(row)

ScipyCombinePValues(row, method) ==
  IF method = "fisher" THEN FisherPValue(row) ELSE StoufferPValue(row)

(***************************************************************************)
(* count_events(times, time_range, t_step=1.0)                             *)
(***************************************************************************)
\* Edges from arange(time_range[0], time_range[1], t_step): the half step is left out.
BinEdgesNoHalfStep(time_range, t_step) ==
  LET e2 == Arange(2 * time_range[1], 2 * time_range[2], 2 * t_step)
  IN [i \in 1..Len(e2) |-> e2[i] \div 2]

\* The stop value time_range[1] + 0.5 * t_step is a half tick when t_step is odd,
\* so arange is evaluated in half ticks and the edges are brought back to ticks.
BinEdges(time_range, t_step) ==
  LET e2 == Arange(2 * time_range[1], 2 * time_range[2] + t_step, 2 * t_step)
  IN [i \in 1..Len(e2) |-> e2[i] \div 2]

count_events(times, time_range, t_step) ==
  LET bin_edges == BinEdges(time_range, t_step)
      counts == Histogram(times, bin_edges)
  IN <<counts, bin_edges>>

\* A histogram that cannot take an empty data array.
HistogramRaisesOnNoData(times, time_range, t_step) == Len(times) = 0

\* With t_start - t_end >= t_step / 2 arange gives no edge at all.  np.histogram
\* then reads bins[-1] once per block of data: depending on the numpy release
\* that is an IndexError or an empty count series when there is data, and an
\* empty count series when there is none.
HistogramMayRaise(times, time_range, t_step) ==
  Len(BinEdges(time_range, t_step)) = 0 /\ Len(times) > 0

(***************************************************************************)
(* plot_histogram(times, time_range, t_step=1.0)                           *)
(***************************************************************************)
RECURSIVE SortedValues(_)
SortedValues(S) ==
  IF S = {} THEN <<>>
  ELSE LET least == CHOOSE x \in S : \A y \in S : x <= y
       IN <<least>> \o SortedValues(S \ {least})

\* stats.itemfreq(counts): one row (value, frequency) per distinct value of
\* counts, in increasing order of value.
ItemFreq(counts) ==
  LET values == SortedValues({counts[i] : i \in DOMAIN counts})
  IN [k \in DOMAIN values |->
        <<values[k], Cardinality({i \in DOMAIN counts : counts[i] = values[k]})>>]

\* len(times) / counts.mean() * stats.poisson.pmf(bins, counts.mean()): each
\* value is kept as the scale and the pmf application it is the product of.
Ideal(times, counts, bins) ==
  [i \in DOMAIN bins |->
     [scale |-> RatDiv(Whole(Len(times)), Mean(counts)),
      f |-> "poisson.pmf", k |-> bins[i], mu |-> Mean(counts)]]

\* The outcomes of one call: the exception that ended it ("none" when it
\* returned None) and the artists it added to the current axes before that.
\*   - No count series (fewer than two bin edges): itemfreq has no row, so
\*     observed[-1, 0] is an IndexError; a numpy whose bincount refuses an
\*     empty array raises ValueError inside itemfreq; np.histogram itself may
\*     raise IndexError (HistogramMayRaise).  Nothing is drawn.
\*   - plt.gca()._get_lines.color_cycle exists in some matplotlib releases
\*     only; where it does not, the call ends with AttributeError before
\*     anything is drawn.
\*   - No event counted: the largest count is 0, bins is empty, and bins[0]
\*     in plt.xlim is an IndexError after both vlines were drawn; a matplotlib
\*     whose vlines takes min(x) of the empty bins raises ValueError in the
\*     first vlines, after that call has added its collection to the axes.
plot_histogram(times, time_range, t_step) ==
  LET counts == count_events(times, time_range, t_step)[1]
      observed == ItemFreq(counts)
      bins == Arange(0, CeilDiv(3 * observed[Len(observed)][1], 2), 1)
      ideal == Ideal(times, counts, bins)
      poisson == [on |-> "gca", artist |-> "vlines", x |-> bins, ymin |-> 0, ymax |-> ideal,
                  label |-> "Poisson", color |-> 1, lw |-> 12, alpha |-> Rat(3, 10)]
      observations == [on |-> "gca", artist |-> "vlines",
                       x |-> [k \in DOMAIN observed |-> observed[k][1]], ymin |-> 0,
                       ymax |-> [k \in DOMAIN observed |-> observed[k][2]],
                       label |-> "observed", color |-> 2, lw |-> 4]
      xlim == [on |-> "gca", artist |-> "xlim", left |-> bins[1], right |-> bins[Len(bins)]]
  IN IF Len(counts) = 0
     THEN {[exc |-> e, drawn |-> <<>>] : e \in {"IndexError", "ValueError"}}
     ELSE {[exc |-> "AttributeError", drawn |-> <<>>]} \cup
          (IF Len(bins) = 0
           THEN {[exc |-> "ValueError", drawn |-> <<poisson>>],
                 [exc |-> "IndexError", drawn |-> <<poisson, observations>>]}
           ELSE {[exc |-> "none", drawn |-> <<poisson, observations, xlim>>]})

(***************************************************************************)
(* dispersion(times, time_range, t_step=1.0, verbose=False)                *)
(***************************************************************************)
\* sum(counts - mean)**2 / mean: the square taken of the sum, not of each term.
DispersionStatisticSquareOfSum(counts) ==
  LET mean == Mean(counts)
      total == PySum([i \in 1..Len(counts) |-> RatSub(Whole(counts[i]), mean)])
  IN RatDiv(RatMul(total, total), mean)

DispersionStatistic(counts) ==
  LET mean == Mean(counts)
  IN PySum([i \in 1..Len(counts) |->
             RatDiv(RatMul(RatSub(Whole(counts[i]), mean), RatSub(Whole(counts[i]), mean)), mean)])

DispersionPValue(counts) == Chi2Sf(DispersionStatistic(counts), Len(counts) - 1)

dispersion(times, time_range, t_step, verbose) ==
  LET counts == count_events(times, time_range, t_step)[1]
      mean == Mean(counts)
      statistic == DispersionStatistic(counts)
      p_value == DispersionPValue(counts)
  IN [ret |-> p_value,
      out |-> IF verbose
              THEN << [fmt |-> "X_mean, chi_squared, p-value: %g, %g, %.2g",
                       vals |-> <<mean, statistic, p_value>>] >>
              ELSE <<>>]

(***************************************************************************)
(* brown_zhao(times, time_range, t_step=1.0, verbose=False)                *)
(***************************************************************************)
AnscombeOffset == Rat(3, 8)

\* np.sqrt(counts + 3/8) with 3/8 evaluated by integer division, i.e. 0.
TransformedIntegerDivision(counts) == [i \in 1..Len(counts) |-> Sqrt(Whole(counts[i]))]

Transformed(counts) == [i \in 1..Len(counts) |-> Sqrt(RatAdd(Whole(counts[i]), AnscombeOffset))]

\* 4 * sum((transformed - mean)**2), with mean = transformed.mean().
BrownZhaoStatistic(counts) ==
  LET transformed == Transformed(counts)
      mean == [meanof |-> transformed]
  IN [times |-> 4, sumsqdev |-> transformed, about |-> mean]

BrownZhaoPValue(counts) == NormSf(BrownZhaoStatistic(counts), Len(counts) - 1)

brown_zhao(times, time_range, t_step, verbose) ==
  LET counts == count_events(times, time_range, t_step)[1]
      chi_squared == BrownZhaoStatistic(counts)
      p_value == BrownZhaoPValue(counts)
  IN [ret |-> p_value,
      out |-> IF verbose
              THEN << [fmt |-> "Y_mean, chi_squared, p-value: %g, %g, %.2g",
                       vals |-> <<chi_squared.about, chi_squared, p_value>>] >>
              ELSE <<>>]

(***************************************************************************)
(* kolmogorov_smirnov(times, time_range, dist='expon', mean_wait=None,     *)
(*                    t_step=1.0, verbose=False)                           *)
(***************************************************************************)
None == <<>>

\* The sample mean gap (t_last - t_first) / (N - 1).
InferredMeanWaitSampleGap(times, time_range) ==
  IF Len(times) = 0 THEN NaN ELSE Rat(times[Len(times)] - times[1], Len(times) - 1)

\* mean_wait when the caller gives none: duration / len(times).
InferredMeanWait(times, time_range) == Rat(time_range[2] - time_range[1], Len(times))

MeanWait(times, time_range, mean_wait) ==
  IF mean_wait = None THEN InferredMeanWait(times, time_range) ELSE mean_wait[1]

\* A normalisation that first drops the events outside the window.
NormalizedWindowed(times, time_range, dist, mean_wait) ==
  LET InWindow(t) == time_range[1] <= t /\ t <= time_range[2]
      inside == SelectSeq(times, InWindow)
      gaps == Diff(inside)
  IN IF dist = "expon"
     THEN [i \in 1..Len(gaps) |-> RatDiv(Whole(gaps[i]), MeanWait(times, time_range, mean_wait))]
     ELSE [i \in 1..Len(inside) |->
             Rat(inside[i] - time_range[1], time_range[2] - time_range[1])]

Normalized(times, time_range, dist, mean_wait) ==
  IF dist = "expon"
  THEN LET gaps == Diff(times)
       IN [i \in 1..Len(gaps) |-> RatDiv(Whole(gaps[i]), MeanWait(times, time_range, mean_wait))]
  ELSE [i \in 1..Len(times) |-> Rat(times[i] - time_range[1], time_range[2] - time_range[1])]

kolmogorov_smirnov(times, time_range, dist, mean_wait, t_step, verbose) ==
  LET warning == IF mean_wait = None /\ verbose /\ dist = "expon"
                 THEN << [fmt |-> "WARNING: Using inferred mean wait", vals |-> <<>>] >>
                 ELSE <<>>
      normalized == Normalized(times, time_range, dist, mean_wait)
      pvalue == KsTestPValue(normalized, dist)
  IN IF mean_wait = None /\ Len(times) = 0
     THEN [exc |-> "ZeroDivisionError", ret |-> None, out |-> warning]
     ELSE IF dist \notin {"expon", "uniform"}
     THEN [exc |-> "UnboundLocalError", ret |-> None, out |-> warning]
     ELSE IF Len(normalized) = 0
     THEN [exc |-> "ValueError", ret |-> None, out |-> warning]
     ELSE [exc |-> "none", ret |-> pvalue,
           out |-> IF verbose
                   THEN warning \o
                        << [fmt |-> "mean wait, statistic, p-value: %g, %g, %.2g",
                            vals |-> <<MeanWait(times, time_range, mean_wait),
                                       [f |-> "kstest.statistic", rvs |-> normalized, cdf |-> dist],
                                       pvalue>>] >>
                   ELSE warning]

(***************************************************************************)
(* combine_pvalues(p_values_tuple, method='fisher')                        *)
(***************************************************************************)
CombineRows(p_values_tuple) == VstackT(p_values_tuple)

\* The methods stats.combine_pvalues knows; any other name is a ValueError.
CombiningMethods == {"fisher", "stouffer"}

\* np.vstack fails on an empty tuple and on arrays of unequal length; the
\* comprehension then calls stats.combine_pvalues row by row, and the first
\* exception leaves the function without a list.
combine_pvalues(p_values_tuple, method) ==
  IF \/ Len(p_values_tuple) = 0
     \/ \E i \in DOMAIN p_values_tuple : Len(p_values_tuple[i]) # Len(p_values_tuple[1])
  THEN [exc |-> "ValueError", ret |-> None]
  ELSE LET rows == CombineRows(p_values_tuple)
       IN IF rows # <<>> /\ method \notin CombiningMethods
          THEN [exc |-> "ValueError", ret |-> None]
          ELSE [exc |-> "none",
                ret |-> [j \in 1..Len(rows) |-> ScipyCombinePValues(rows[j], method)]]

(***************************************************************************)
(* anderson_darling(times, distribution='expon', significance=5,           *)
(*                  verbose=False)                                         *)
(***************************************************************************)
\* assert distribution in ('norm', 'expon', 'logistic', 'gumbel', 'extreme1')
RecognizedDistributions == {"norm", "expon", "logistic", "gumbel", "extreme1"}

\* stats.anderson(x, dist)[2]: the significance levels (percent) of the table of
\* the distribution.
AndersonSignificanceLevels(dist) ==
  IF dist \in {"norm", "expon"}
  THEN <<Whole(15), Whole(10), Whole(5), Rat(5, 2), Whole(1)>>
  ELSE IF dist = "logistic"
  THEN <<Whole(25), Whole(10), Whole(5), Rat(5, 2), Whole(1), Rat(1, 2)>>
  ELSE <<Whole(25), Whole(10), Whole(5), Rat(5, 2), Whole(1)>>

\* stats.anderson(x, dist)[1]: one critical value per significance level.
AndersonCriticalValues(x, dist) ==
  LET levels == AndersonSignificanceLevels(dist)
  IN [i \in 1..Len(levels) |->
        [f |-> "anderson.critical", dist |-> dist, level |-> levels[i], N |-> Len(x)]]

\* stats.anderson(x, dist)[0]: the A^2 statistic of the sample.
AndersonStatistic(x, dist) == [f |-> "anderson.statistic", x |-> x, dist |-> dist]

\* critical_values[np.argwhere(significance_levels == significance)]: the
\* critical values whose tabulated level equals the significance asked for.
CriticalValue(x, dist, significance) ==
  LET AtLevel(c) == c.level = significance
  IN SelectSeq(AndersonCriticalValues(x, dist), AtLevel)

anderson_darling(times, distribution, significance, verbose) ==
  LET statistic == AndersonStatistic(times, distribution)
      critical_value == CriticalValue(times, distribution, significance)
  IN IF distribution \notin RecognizedDistributions
     THEN [exc |-> "AssertionError", ret |-> None, out |-> <<>>]
     ELSE IF verbose /\ Len(critical_value) # 1
     THEN [exc |-> "TypeError", ret |-> None, out |-> <<>>]
     ELSE [exc |-> "none", ret |-> statistic,
           out |-> IF verbose
                   THEN << [fmt |-> "statistic, significance, critical value: %g, %g%%, %.2g",
                            vals |-> <<statistic, significance, critical_value>>] >>
                   ELSE <<>>]

(***************************************************************************)
(* annotate(text, loc='upper right', ax=None, frameon=False)               *)
(***************************************************************************)
\* The legend location codes by name.
LOC_CODE ==
  ("upper right" :> 1) @@ ("upper left" :> 2) @@ ("lower left" :> 3) @@
  ("lower right" :> 4) @@ ("right" :> 5) @@ ("center left" :> 6) @@
  ("center right" :> 7) @@ ("lower center" :> 8) @@ ("upper center" :> 9) @@
  ("center" :> 10)

\* LOC_CODE.keys(): a list of the ten names in the order the dictionary iterates.
\* That order depends on the string hashes of the interpreter run (hash
\* randomization, hash seed), so no order is fixed here: the list is kept as
\* the names it holds, each once, and stands for any of their orders.
LocCodeKeys == [anyorder |-> DOMAIN LOC_CODE]

\* An unknown location is reported on standard output, with the names of
\* LOC_CODE in whatever order the dictionary hands them out, and replaced by
\* 'upper right'; the text is then anchored on ax, or on the current axes when
\* ax is None.  Nothing is returned.
annotate(text, loc, ax, frameon) ==
  LET default_loc == "upper right"
      known == loc \in DOMAIN LOC_CODE
      used == IF known THEN loc ELSE default_loc
  IN [ret |-> None,
      out |-> IF known THEN <<>>
              ELSE << [fmt |-> "'%s' not in %s: defaulting to '%s'",
                       vals |-> <<loc, LocCodeKeys, default_loc>>] >>,
      drawn |-> << [on |-> IF ax = None THEN "gca" ELSE ax[1], artist |-> "AnchoredText",
                    text |-> text, loc |-> LOC_CODE[used], frameon |-> frameon] >>]

(***************************************************************************)
(* Inputs.                                                                 *)
(***************************************************************************)
Timestamps == 0..MaxTime

\* An event catalog: a non-decreasing sequence of timestamps, ties allowed.
Catalogs ==
  UNION {{s \in [1..k -> Timestamps] : \A i \in 1..(k - 1) : s[i] <= s[i + 1]} : k \in 0..MaxEvents}

\* An observation window (t_start, t_end) with t_start < t_end.
ValidWindows == {w \in Timestamps \X Timestamps : w[1] < w[2]}

\* Pairs a caller can hand over although t_start >= t_end: the code checks nothing.
InvalidWindows == {w \in Timestamps \X Timestamps : w[1] >= w[2] /\ w[1] - w[2] <= 1}

Windows == ValidWindows \cup InvalidWindows

Steps == 1..MaxStep

Dists == {"expon", "uniform", "norm"}

MeanWaits == {None, <<Whole(1)>>, <<Whole(2)>>}

\* p-values handed to the Combiner, degenerate and out-of-range ones included.
PValues == {Rat(0 - 1, 2), Whole(0), Rat(1, 5), Rat(3, 10), Rat(1, 2), Rat(4, 5), Whole(1), Rat(3, 2)}

\* Per-zone p-values; -1/2 is no probability and has no logarithm.
ZoneValues == {Rat(0 - 1, 2), Whole(0), Rat(1, 2), Whole(1)}

SeqsUpTo(S, lo, hi) == UNION {[1..k -> S] : k \in lo..hi}

\* A flat collection: each p-value stands alone (vstack makes it a row of one).
FlatCollections == SeqsUpTo({<<p>> : p \in PValues}, 0, MaxPValues)

\* One array of p-values per test, one entry per zone.
ZoneCollections == SeqsUpTo(SeqsUpTo(ZoneValues, 1, MaxZones), 2, 2)

Methods == {"fisher", "stouffer", "median"}

\* A sample handed to the Goodness-of-Fit Test.
Samples == Catalogs \ {<<>>}

\* Selectors a caller can pass: the five of the assert and two it rejects.
Distributions == {"norm", "expon", "logistic", "gumbel", "extreme1", "uniform", "weibull"}

\* Significance levels asked for, in percent; 3 is in no table.
Significances == {Whole(5), Whole(15), Whole(25), Whole(3)}

\* Texts handed to annotate.
Texts == {"p=0.5", ""}

\* Location names a caller can pass: the ten of LOC_CODE and one it does not hold.
Locations == DOMAIN LOC_CODE \cup {"nowhere"}

\* ax: None (the current axes are taken) or an axes object of the caller.
AxesArguments == {None, <<"ax">>}

(***************************************************************************)
(* The calls.                                                              *)
(***************************************************************************)
NoCall ==
  /\ pc = "idle"
  /\ fn = "none"
  /\ args = [times |-> <<>>]
  /\ ret = None
  /\ exc = "none"
  /\ out = <<>>
  /\ axes = <<>>

Init ==
  /\ NoCall
  /\ heap = None
  /\ heap0 = None
  /\ calls = <<>>

Returns(f, a, r, o) ==
  /\ pc' = "returned"
  /\ fn' = f
  /\ args' = a
  /\ ret' = r
  /\ exc' = "none"
  /\ out' = o
  /\ axes' = <<>>
  /\ UNCHANGED flight

Raises(f, a, e, o) ==
  /\ pc' = "raised"
  /\ fn' = f
  /\ args' = a
  /\ ret' = None
  /\ exc' = e
  /\ out' = o
  /\ axes' = <<>>
  /\ UNCHANGED flight

\* A plotting call ends: drawn is what it added to the axes before it returned
\* or raised.
Draws(f, a, e, o, drawn) ==
  /\ pc' = IF e = "none" THEN "returned" ELSE "raised"
  /\ fn' = f
  /\ args' = a
  /\ ret' = None
  /\ exc' = e
  /\ out' = o
  /\ axes' = drawn
  /\ UNCHANGED flight

CountEvents ==
  /\ pc = "idle"
  /\ \E times \in Catalogs, time_range \in Windows, t_step \in Steps :
       LET a == [times |-> times, time_range |-> time_range, t_step |-> t_step]
       IN \/ Returns("count_events", a, count_events(times, time_range, t_step), <<>>)
          \/ /\ HistogramMayRaise(times, time_range, t_step)
             /\ Raises("count_events", a, "IndexError", <<>>)

PlotHistogram ==
  /\ pc = "idle"
  /\ \E times \in Catalogs, time_range \in Windows, t_step \in Steps :
       LET a == [times |-> times, time_range |-> time_range, t_step |-> t_step]
       IN \E r \in plot_histogram(times, time_range, t_step) :
            Draws("plot_histogram", a, r.exc, <<>>, r.drawn)

Dispersion ==
  /\ pc = "idle"
  /\ \E times \in Catalogs, time_range \in Windows, t_step \in Steps, verbose \in BOOLEAN :
       LET r == dispersion(times, time_range, t_step, verbose)
           a == [times |-> times, time_range |-> time_range, t_step |-> t_step,
                 verbose |-> verbose]
       IN \/ Returns("dispersion", a, r.ret, r.out)
          \/ /\ HistogramMayRaise(times, time_range, t_step)
             /\ Raises("dispersion", a, "IndexError", <<>>)

BrownZhao ==
  /\ pc = "idle"
  /\ \E times \in Catalogs, time_range \in Windows, t_step \in Steps, verbose \in BOOLEAN :
       LET r == brown_zhao(times, time_range, t_step, verbose)
           a == [times |-> times, time_range |-> time_range, t_step |-> t_step,
                 verbose |-> verbose]
       IN \/ Returns("brown_zhao", a, r.ret, r.out)
          \/ /\ HistogramMayRaise(times, time_range, t_step)
             /\ Raises("brown_zhao", a, "IndexError", <<>>)

KolmogorovSmirnov ==
  /\ pc = "idle"
  /\ \E times \in Catalogs, time_range \in Windows, dist \in Dists, mean_wait \in MeanWaits,
        t_step \in {1, MaxStep}, verbose \in BOOLEAN :
       LET r == kolmogorov_smirnov(times, time_range, dist, mean_wait, t_step, verbose)
           a == [times |-> times, time_range |-> time_range, dist |-> dist,
                 mean_wait |-> mean_wait, t_step |-> t_step, verbose |-> verbose]
       IN IF r.exc = "none"
          THEN Returns("kolmogorov_smirnov", a, r.ret, r.out)
          ELSE Raises("kolmogorov_smirnov", a, r.exc, r.out)

CombinePValues ==
  /\ pc = "idle"
  /\ \E p_values_tuple \in FlatCollections \cup ZoneCollections, method \in Methods :
       LET r == combine_pvalues(p_values_tuple, method)
           a == [p_values_tuple |-> p_values_tuple, method |-> method]
       IN IF r.exc = "none"
          THEN Returns("combine_pvalues", a, r.ret, <<>>)
          ELSE Raises("combine_pvalues", a, r.exc, <<>>)

AndersonDarling ==
  /\ pc = "idle"
  /\ \E times \in Samples, distribution \in Distributions, significance \in Significances,
        verbose \in BOOLEAN :
       LET r == anderson_darling(times, distribution, significance, verbose)
           a == [times |-> times, distribution |-> distribution,
                 significance |-> significance, verbose |-> verbose]
       IN IF r.exc = "none"
          THEN Returns("anderson_darling", a, r.ret, r.out)
          ELSE Raises("anderson_darling", a, r.exc, r.out)

Annotate ==
  /\ pc = "idle"
  /\ \E text \in Texts, loc \in Locations, ax \in AxesArguments, frameon \in BOOLEAN :
       LET r == annotate(text, loc, ax, frameon)
           a == [text |-> text, loc |-> loc, ax |-> ax, frameon |-> frameon]
       IN Draws("annotate", a, "none", r.out, r.drawn)

Next ==
  \/ CountEvents
  \/ PlotHistogram
  \/ Dispersion
  \/ BrownZhao
  \/ KolmogorovSmirnov
  \/ CombinePValues
  \/ AndersonDarling
  \/ Annotate

Spec == Init /\ [][Next]_vars

(***************************************************************************)
(* Two calls in flight on arrays they may share.  A call reads the window  *)
(* (np.arange in count_events, duration in kolmogorov_smirnov), then the   *)
(* array (np.histogram, the subtraction in kolmogorov_smirnov,             *)
(* stats.anderson, np.vstack), then computes and returns; the steps of the *)
(* two calls interleave in any order.                                      *)
(***************************************************************************)
\* t_step=1.0, the default of every function that takes a bin width.
DefaultStep == 1

Functions ==
  {"count_events", "dispersion", "brown_zhao", "kolmogorov_smirnov", "anderson_darling",
   "combine_pvalues"}

\* The functions with a time_range parameter.
WindowFunctions == {"count_events", "dispersion", "brown_zhao", "kolmogorov_smirnov"}

SharedCatalogs == {<<0, MaxTime>>, <<1, MaxTime>>, <<1, 1>>}

SharedWindows == {<<0, MaxTime>>, <<1, MaxTime>>}

SharedPValues == << <<Rat(1, 2), Rat(1, 5)>>, <<Rat(4, 5), Whole(1)>> >>

\* time_range[1] += 0.5 * t_step done on the caller's window object, in whole ticks.
WindowWidenedInPlace(f, time_range) ==
  IF f = "count_events" THEN <<time_range[1], time_range[2] + DefaultStep>> ELSE time_range

\* The window object after a function has read it: time_range[0] and
\* time_range[1] are only loaded, never stored.
WindowAfterRead(f, time_range) == time_range

\* times -= time_range[0] done on the caller's array.
CatalogNormalizedInPlace(f, times, time_range) ==
  IF f = "kolmogorov_smirnov"
  THEN [i \in 1..Len(times) |-> times[i] - time_range[1]]
  ELSE times

\* The catalog after a function has read it: np.histogram, times -
\* time_range[0], np.diff and stats.anderson build new arrays and leave their
\* argument as it was.
CatalogAfterRead(f, times, time_range) == times

\* The value of f for the data and window it has read, with the defaults for
\* everything else ('uniform' for the KS test).
RunCall(f, data, time_range) ==
  IF f = "count_events" THEN count_events(data, time_range, DefaultStep)
  ELSE IF f = "dispersion" THEN dispersion(data, time_range, DefaultStep, FALSE).ret
  ELSE IF f = "brown_zhao" THEN brown_zhao(data, time_range, DefaultStep, FALSE).ret
  ELSE IF f = "kolmogorov_smirnov"
  THEN kolmogorov_smirnov(data, time_range, "uniform", None, DefaultStep, FALSE).ret
  ELSE IF f = "anderson_darling" THEN anderson_darling(data, "expon", Whole(5), FALSE).ret
  ELSE combine_pvalues(data, "fisher").ret

IdleFrame == [f |-> "none", cat |-> 1, at |-> "idle", time_range |-> None, data |-> None,
              result |-> None]

InitConcurrent ==
  /\ NoCall
  /\ \E c1 \in SharedCatalogs, c2 \in SharedCatalogs, w \in SharedWindows :
       heap = [cat |-> <<c1, c2>>, win |-> w, pv |-> SharedPValues]
  /\ heap0 = heap
  /\ calls = <<IdleFrame, IdleFrame>>

\* A caller enters function f with catalog number c.
Enter ==
  \E i \in DOMAIN calls, f \in Functions, c \in DOMAIN heap.cat :
    /\ calls[i].at = "idle"
    /\ calls' = [calls EXCEPT ![i] = [IdleFrame EXCEPT !.f = f, !.cat = c, !.at = "entered"]]
    /\ UNCHANGED <<heap, heap0>>
    /\ UNCHANGED call

ReadWindow ==
  \E i \in DOMAIN calls :
    /\ calls[i].at = "entered"
    /\ calls[i].f \in WindowFunctions
    /\ calls' = [calls EXCEPT ![i].time_range = heap.win, ![i].at = "window"]
    /\ heap' = [heap EXCEPT !.win = WindowAfterRead(calls[i].f, heap.win)]
    /\ UNCHANGED heap0
    /\ UNCHANGED call

ReadArray ==
  \E i \in DOMAIN calls :
    /\ \/ calls[i].at = "window"
       \/ calls[i].at = "entered" /\ calls[i].f \notin WindowFunctions
    /\ IF calls[i].f = "combine_pvalues"
       THEN /\ calls' = [calls EXCEPT ![i].data = heap.pv, ![i].at = "read"]
            /\ UNCHANGED heap
       ELSE /\ calls' = [calls EXCEPT ![i].data = heap.cat[calls[i].cat], ![i].at = "read"]
            /\ heap' = [heap EXCEPT !.cat[calls[i].cat] =
                          CatalogAfterRead(calls[i].f, heap.cat[calls[i].cat],
                                           calls[i].time_range)]
    /\ UNCHANGED heap0
    /\ UNCHANGED call

Leave ==
  \E i \in DOMAIN calls :
    /\ calls[i].at = "read"
    /\ calls' = [calls EXCEPT ![i].result = RunCall(calls[i].f, calls[i].data,
                                                     calls[i].time_range),
                              ![i].at = "done"]
    /\ UNCHANGED <<heap, heap0>>
    /\ UNCHANGED call

NextConcurrent ==
  \/ Enter
  \/ ReadWindow
  \/ ReadArray
  \/ Leave

SpecConcurrent == InitConcurrent /\ [][NextConcurrent]_vars

(***************************************************************************)
(* Properties.                                                             *)
(***************************************************************************)
Called(f) == fn = f

Returned(f) == fn = f /\ pc = "returned"

\* The number of catalog events with lo <= t_i <= hi.
EventsIn(times, lo, hi) == Cardinality({i \in DOMAIN times : lo <= times[i] /\ times[i] <= hi})

WindowLength == args.time_range[2] - args.time_range[1]

\* The call was given a window with t_start < t_end.
ValidWindow == args.time_range[1] < args.time_range[2]

\* The count series the Binner gives for the arguments of the call.
BinnedCounts == count_events(args.times, args.time_range, args.t_step)[1]

SumSquares(counts) == SumInts([i \in 1..Len(counts) |-> counts[i] * counts[i]])

\* C1 (as stated): for every catalog, window and bin width, the sum of the count
\* series returned by count_events equals the number of catalog events with
\* t_start <= t_i <= t_end, also when the window length is no multiple of the
\* bin width.
C1_CountConservationWindow ==
  (Returned("count_events") /\ ValidWindow) =>
    SumInts(ret[1]) = EventsIn(args.times, args.time_range[1], args.time_range[2])

\* C1 (amended): when count_events returns at least one bin, the sum of the count
\* series equals the number of catalog events between t_start and the last
\* returned bin edge (both inclusive); when the window length is an integer
\* multiple of the bin width that is the number of events with
\* t_start <= t_i <= t_end.
C1_CountConservationBinned ==
  (Returned("count_events") /\ ValidWindow) =>
    /\ Len(ret[1]) >= 1 =>
         SumInts(ret[1]) = EventsIn(args.times, args.time_range[1], ret[2][Len(ret[2])])
    /\ WindowLength % args.t_step = 0 =>
         SumInts(ret[1]) = EventsIn(args.times, args.time_range[1], args.time_range[2])

\* C1 witness: count_events has binned a catalog over a window whose length is no
\* multiple of the bin width, counted some event, and the sum differs from the
\* number of events in the window.
C1_Witness ==
  /\ Returned("count_events")
  /\ WindowLength % args.t_step # 0
  /\ SumInts(ret[1]) >= 1
  /\ SumInts(ret[1]) # EventsIn(args.times, args.time_range[1], args.time_range[2])

\* C2 (as stated): the bin edges start at t_start, are spaced by the bin width,
\* and the number of bins is ceil((t_end - t_start) / bin width).
C2_BinsCeil ==
  (Returned("count_events") /\ ValidWindow) =>
    /\ ret[2][1] = args.time_range[1]
    /\ \A j \in 1..(Len(ret[2]) - 1) : ret[2][j + 1] - ret[2][j] = args.t_step
    /\ Len(ret[2]) = Len(ret[1]) + 1
    /\ Len(ret[1]) = CeilDiv(WindowLength, args.t_step)

\* C2 (amended): the bin edges start at t_start and are spaced by the bin width,
\* and the number of bins m is (t_end - t_start) / bin width rounded to the
\* nearest integer, an exact half rounded down:
\* (t_end - t_start)/dt - 1/2 <= m < (t_end - t_start)/dt + 1/2.
C2_BinsNearest ==
  (Returned("count_events") /\ ValidWindow) =>
    /\ ret[2][1] = args.time_range[1]
    /\ \A j \in 1..(Len(ret[2]) - 1) : ret[2][j + 1] - ret[2][j] = args.t_step
    /\ Len(ret[2]) = Len(ret[1]) + 1
    /\ 2 * WindowLength - args.t_step <= 2 * args.t_step * Len(ret[1])
    /\ 2 * args.t_step * Len(ret[1]) < 2 * WindowLength + args.t_step

\* C2 witness: count_events has returned at least one bin, and fewer bins than
\* ceil((t_end - t_start) / bin width).
C2_Witness ==
  /\ Returned("count_events")
  /\ Len(ret[1]) >= 1
  /\ Len(ret[1]) < CeilDiv(WindowLength, args.t_step)

\* The unbiased sample variance, sum((c - mean)^2) / (n - 1), from the sums of
\* the counts and of their squares.
UnbiasedVariance(counts) ==
  Rat(Len(counts) * SumSquares(counts) - SumInts(counts) * SumInts(counts),
      Len(counts) * (Len(counts) - 1))

\* C3: for a count series of n >= 2 bins with mean > 0, dispersion's statistic is
\* sum((c_i - mean)^2) / mean = (n - 1) * variance / mean with the unbiased
\* variance, and the value returned is the chi-square upper tail with n - 1
\* degrees of freedom at that statistic.
C3_DispersionStatistic ==
  (Returned("dispersion") /\ Len(BinnedCounts) >= 2 /\ SumInts(BinnedCounts) > 0) =>
    LET counts == BinnedCounts
        n == Len(counts)
        S == SumInts(counts)
    IN /\ ret.f = "chi2.sf"
       /\ ret.a = n - 1
       /\ ~ret.nan
       /\ ret.x = RatDiv(RatMul(Whole(n - 1), UnbiasedVariance(counts)), Rat(S, n))
       /\ ret.x.n * S = ret.x.d * (n * SumSquares(counts) - S * S)

\* C3 witness: dispersion has returned for a series of at least 2 bins with a
\* positive mean and a positive statistic.
C3_Witness ==
  /\ Returned("dispersion")
  /\ Len(BinnedCounts) >= 3
  /\ SumInts(BinnedCounts) >= 2
  /\ ret.x.n > 0

\* C4 (as stated): the value brown_zhao returns is the chi-square upper tail with
\* n - 1 degrees of freedom at its statistic, and no other distribution is used.
C4_BrownZhaoChiSquare ==
  Returned("brown_zhao") =>
    /\ ret.f = "chi2.sf"
    /\ ret.a = Len(BinnedCounts) - 1

\* C5: brown_zhao transforms every bin of the Binner's count series by
\* y_i = sqrt(count_i + 3/8) and its statistic is 4 * sum((y_i - mean(y))^2),
\* over the count series dispersion uses for the same arguments.
C5_BrownZhaoTransform ==
  Returned("brown_zhao") =>
    LET counts == BinnedCounts
        ys == ret.x.sumsqdev
    IN /\ Len(ys) = Len(counts)
       /\ \A i \in 1..Len(counts) :
            /\ ys[i].sqrt.d > 0
            /\ 8 * ys[i].sqrt.n = (8 * counts[i] + 3) * ys[i].sqrt.d
       /\ ret.x.times = 4
       /\ ret.x.about = [meanof |-> ys]
       /\ dispersion(args.times, args.time_range, args.t_step, args.verbose).ret.a
            = Len(ys) - 1

\* C5 witness: brown_zhao has returned for a series of at least 2 bins of which
\* one is empty and one is not.
C5_Witness ==
  /\ Returned("brown_zhao")
  /\ Len(BinnedCounts) >= 2
  /\ \E i, j \in 1..Len(BinnedCounts) : BinnedCounts[i] = 0 /\ BinnedCounts[j] >= 2

\* The call combined a flat collection: every p-value given on its own.
FlatCall == \A i \in DOMAIN args.p_values_tuple : Len(args.p_values_tuple[i]) = 1

\* C6: with the default method the Combiner combines the k p-values of a flat
\* collection in one step: one value is returned, its statistic is
\* -2 * sum(ln(p_i)) over all k values and it is the chi-square upper tail with
\* 2k degrees of freedom; nothing is combined pairwise first.
C6_FisherFlat ==
  (Returned("combine_pvalues") /\ args.method = "fisher" /\ FlatCall) =>
    LET k == Len(args.p_values_tuple)
    IN /\ Len(ret) = 1
       /\ ret[1].f = "chi2.sf"
       /\ ret[1].a = 2 * k
       /\ Len(ret[1].x.neg2sumlog) = k
       /\ \A i \in 1..k : ret[1].x.neg2sumlog[i] = args.p_values_tuple[i][1]

\* C6 witness: the Combiner has returned for a flat collection of three p-values,
\* all in (0, 1].
C6_Witness ==
  /\ Returned("combine_pvalues")
  /\ args.method = "fisher"
  /\ FlatCall
  /\ Len(args.p_values_tuple) = 3
  /\ \A i \in 1..3 : LET p == args.p_values_tuple[i][1] IN 0 < p.n /\ p.n <= p.d
  /\ ret[1].x.val = "finite"

ExponCall == fn = "kolmogorov_smirnov" /\ args.dist = "expon"

\* C7 (as stated): in the exponential-wait test the sample is the consecutive
\* differences of the raw timestamps divided by mean_wait, and a mean_wait the
\* caller does not give is the sample mean gap (t_last - t_first) / (N - 1).
C7_MeanWaitSampleGap ==
  (ExponCall /\ pc = "returned" /\ ValidWindow /\ args.mean_wait = None) =>
    LET times == args.times
        N == Len(times)
    IN /\ Len(ret.rvs) = N - 1
       /\ \A i \in 1..(N - 1) :
            ret.rvs[i] = RatDiv(Whole(times[i + 1] - times[i]), Rat(times[N] - times[1], N - 1))

\* C7 (amended): in the exponential-wait test the sample is the consecutive
\* differences of the raw timestamps divided by mean_wait, and a mean_wait the
\* caller does not give is the window length divided by the number of events,
\* (t_end - t_start) / N.
C7_MeanWaitWindowOverN ==
  (ExponCall /\ pc = "returned" /\ ValidWindow) =>
    LET times == args.times
        N == Len(times)
        mw == IF args.mean_wait = None THEN Rat(WindowLength, N) ELSE args.mean_wait[1]
    IN /\ Len(ret.rvs) = N - 1
       /\ ret.cdf = "expon"
       /\ \A i \in 1..(N - 1) :
            /\ ret.rvs[i].d > 0
            /\ ret.rvs[i].n * mw.n = (times[i + 1] - times[i]) * mw.d * ret.rvs[i].d

\* C7 witness: the exponential-wait test has returned without a mean_wait from
\* the caller, for a catalog whose sample mean gap differs from the window
\* length divided by the number of events.
C7_Witness ==
  /\ ExponCall
  /\ pc = "returned"
  /\ args.mean_wait = None
  /\ Len(args.times) >= 3
  /\ args.times[Len(args.times)] > args.times[1]
  /\ (args.times[Len(args.times)] - args.times[1]) * Len(args.times)
       # WindowLength * (Len(args.times) - 1)

\* C8 (as stated): a dispersion call whose count series has mean zero ends with
\* InsufficientDataError and returns no p-value.
C8_ZeroMeanRaises ==
  (Called("dispersion") /\ Len(BinnedCounts) >= 1 /\ SumInts(BinnedCounts) = 0) =>
    pc = "raised" /\ exc = "InsufficientDataError"

\* A p-value that is 0 or lies outside (0, 1].
Degenerate(p) == p.n <= 0 \/ p.n > p.d

\* C9 (as stated): the Combiner ends with InvalidPValueError, and returns no
\* combined value, whenever a p-value of its input is 0 or lies outside (0, 1].
C9_DegeneratePValueRaises ==
  (Called("combine_pvalues")
     /\ \E i \in DOMAIN args.p_values_tuple :
          \E j \in DOMAIN args.p_values_tuple[i] : Degenerate(args.p_values_tuple[i][j])) =>
    pc = "raised" /\ exc = "InvalidPValueError"

\* C10 (as stated): a dispersion call on a catalog of exactly one event ends with
\* InsufficientDataError, for every window and bin width.
C10_SingleEventRaises ==
  (Called("dispersion") /\ Len(args.times) = 1) =>
    pc = "raised" /\ exc = "InsufficientDataError"

\* C11 (as stated): dispersion and brown_zhao end with InsufficientDataError
\* whenever window and bin width give a count series of fewer than 2 bins.
C11_FewBinsRaises ==
  ((Called("dispersion") \/ Called("brown_zhao")) /\ Len(BinnedCounts) < 2) =>
    pc = "raised" /\ exc = "InsufficientDataError"

\* C12 (as stated): the exponential-wait KS test ends with InsufficientDataError
\* and returns no p-value when the catalog has fewer than 2 events.
C12_FewEventsRaises ==
  (ExponCall /\ Len(args.times) < 2) =>
    pc = "raised" /\ exc = "InsufficientDataError" /\ ret = None

WindowTests == {"dispersion", "brown_zhao", "kolmogorov_smirnov"}

\* C13 (as stated): every test that takes a window ends with InvalidWindowError
\* when t_start >= t_end, with nothing printed or returned.
C13_InvalidWindowRaises ==
  (fn \in WindowTests /\ ~ValidWindow) =>
    pc = "raised" /\ exc = "InvalidWindowError" /\ ret = None /\ out = <<>>

UniformCall == fn = "kolmogorov_smirnov" /\ args.dist = "uniform"

\* Some event of the catalog lies below t_start or above t_end.
EventOutsideWindow ==
  \E i \in DOMAIN args.times :
    args.times[i] < args.time_range[1] \/ args.times[i] > args.time_range[2]

\* C14 (as stated): the uniform-order KS test ends with InvalidWindowError if any
\* event lies outside the window; no normalized value outside [0, 1] is tested.
C14_OutsideEventRaises ==
  (UniformCall /\ EventOutsideWindow) =>
    pc = "raised" /\ exc = "InvalidWindowError" /\ ret = None

\* C15 (as stated): anderson_darling ends with UnsupportedDistributionError
\* exactly when the selector is none of norm, expon, logistic, gumbel, extreme1.
C15_UnsupportedDistributionError ==
  Called("anderson_darling") =>
    ((args.distribution \notin {"norm", "expon", "logistic", "gumbel", "extreme1"})
       <=> (pc = "raised" /\ exc = "UnsupportedDistributionError"))

\* C16 (as stated): anderson_darling outputs the statistic, the critical-value
\* set of the selected distribution and the coarsest tabulated significance
\* level at which the statistic exceeds the critical value.
C16_AndersonOutputs ==
  Returned("anderson_darling") =>
    /\ {"statistic", "critical_values", "significance_level"} \subseteq DOMAIN ret
    /\ ret.critical_values = AndersonCriticalValues(args.times, args.distribution)

\* C17 (as stated): every exponential-wait KS call without a mean_wait of the
\* caller carries the inferred-parameter warning, verbose or not, and still
\* returns its p-value.
C17_WarningAlways ==
  (ExponCall /\ pc = "returned" /\ args.mean_wait = None) =>
    \E i \in DOMAIN out : out[i].fmt = "WARNING: Using inferred mean wait"

TestFunctions ==
  {"dispersion", "brown_zhao", "kolmogorov_smirnov", "anderson_darling", "combine_pvalues"}

\* r is a p-value the library computed as a number, not nan.
ProperPValue(r) == "nan" \in DOMAIN r /\ ~r.nan

\* C18 (as stated): no test function returns NaN or another value that is no
\* p-value: every call that returns gives a p-value in [0, 1].
C18_NoSentinel ==
  (pc = "returned" /\ fn \in TestFunctions) =>
    IF fn = "combine_pvalues"
    THEN \A j \in DOMAIN ret : ProperPValue(ret[j])
    ELSE ProperPValue(ret)

\* The test statistic the call of the state computes.
StatisticOfCall ==
  IF fn = "dispersion" THEN DispersionStatistic(BinnedCounts)
  ELSE IF fn = "brown_zhao" THEN BrownZhaoStatistic(BinnedCounts)
  ELSE [f |-> "kstest.statistic",
        rvs |-> Normalized(args.times, args.time_range, args.dist, args.mean_wait),
        cdf |-> args.dist]

\* The p-value the call of the state computes.
PValueOfCall ==
  IF fn = "dispersion" THEN DispersionPValue(BinnedCounts)
  ELSE IF fn = "brown_zhao" THEN BrownZhaoPValue(BinnedCounts)
  ELSE KsTestPValue(Normalized(args.times, args.time_range, args.dist, args.mean_wait),
                    args.dist)

\* C19 (as stated): every successful dispersion, brown_zhao and KS call returns
\* a Test Result holding both the test statistic and the p-value of the call.
C19_StatisticAndPValue ==
  (pc = "returned" /\ fn \in WindowTests) =>
    ret = [statistic |-> StatisticOfCall, pvalue |-> PValueOfCall]

\* C20 (as stated): the Combiner is atomic: it either returns no value at all or
\* a combined value for every row; it never returns the values of some rows
\* next to a row for which combining failed (nan).
C20_Atomic ==
  Returned("combine_pvalues") =>
    ~(\E j, k \in DOMAIN ret : ret[j].nan /\ ~ret[k].nan)

VerboseTests == {"dispersion", "brown_zhao", "kolmogorov_smirnov", "anderson_darling"}

\* What the call of the state gives with the verbose flag set to v: its
\* exception ("none" when it returns) and its value.
OutcomeWithVerbose(v) ==
  IF fn = "dispersion"
  THEN [exc |-> "none", ret |-> dispersion(args.times, args.time_range, args.t_step, v).ret]
  ELSE IF fn = "brown_zhao"
  THEN [exc |-> "none", ret |-> brown_zhao(args.times, args.time_range, args.t_step, v).ret]
  ELSE IF fn = "kolmogorov_smirnov"
  THEN LET r == kolmogorov_smirnov(args.times, args.time_range, args.dist, args.mean_wait,
                                   args.t_step, v)
       IN [exc |-> r.exc, ret |-> r.ret]
  ELSE LET r == anderson_darling(args.times, args.distribution, args.significance, v)
       IN [exc |-> r.exc, ret |-> r.ret]

\* C22 (as stated): verbose mode is presentation-only: a call of dispersion,
\* brown_zhao, kolmogorov_smirnov or anderson_darling that returns gives the
\* same value, and also returns, with the verbose flag the other way round.
C22_VerbosePresentationOnly ==
  (pc = "returned" /\ fn \in VerboseTests) =>
    /\ OutcomeWithVerbose(~args.verbose).exc = "none"
    /\ OutcomeWithVerbose(~args.verbose).ret = ret

\* C23: count_events on an empty catalog with a window t_start < t_end raises
\* nothing and returns a count series whose every bin is 0, one bin per pair of
\* consecutive edges.
C23_EmptyCatalogAllZero ==
  (Called("count_events") /\ args.times = <<>> /\ ValidWindow) =>
    /\ pc = "returned"
    /\ Len(ret[1]) = (IF ret[2] = <<>> THEN 0 ELSE Len(ret[2]) - 1)
    /\ \A j \in DOMAIN ret[1] : ret[1][j] = 0

\* C23 witness: count_events has returned three or more bins for an empty catalog.
C23_Witness ==
  /\ Returned("count_events")
  /\ args.times = <<>>
  /\ ValidWindow
  /\ Len(ret[1]) >= 3

\* The Combiner was called with the flat collection p = [0.5, 0.3, 0.8] and
\* Fisher's method.
FisherExampleCall ==
  /\ Returned("combine_pvalues")
  /\ args.method = "fisher"
  /\ args.p_values_tuple = << <<Rat(1, 2)>>, <<Rat(3, 10)>>, <<Rat(4, 5)>> >>

\* |x - y| in units of 1 / (10000 * LogScale), x being the statistic the
\* Combiner took the chi-square tail of, y a number given in 1 / 10000.
StatisticOff(tenThousandths) ==
  Abs(10000 * ret[1].x.approx - tenThousandths * LogScale)

\* C25 (as stated): for p = [0.5, 0.3, 0.8] the Fisher statistic is 4.2485 (to
\* within 0.002) and is compared against chi-square with 6 degrees of freedom.
C25_Statistic42485 ==
  FisherExampleCall =>
    /\ ret[1].f = "chi2.sf" /\ ret[1].a = 6
    /\ StatisticOff(42485) <= 20 * LogScale

\* C25: for p = [0.5, 0.3, 0.8] the Combiner returns one value, the chi-square
\* upper tail with 6 degrees of freedom of the statistic -2 * (ln 0.5 + ln 0.3 +
\* ln 0.8) of these three values, which is 4.2405 (to within 0.002).
C25_Statistic42405 ==
  FisherExampleCall =>
    /\ Len(ret) = 1
    /\ ret[1].f = "chi2.sf" /\ ret[1].a = 6
    /\ ret[1].x.neg2sumlog = <<Rat(1, 2), Rat(3, 10), Rat(4, 5)>>
    /\ StatisticOff(42405) <= 20 * LogScale

\* C25 witness: the Combiner has returned for p = [0.5, 0.3, 0.8] with a finite
\* statistic.
C25_Witness ==
  /\ FisherExampleCall
  /\ ret[1].x.val = "finite"
  /\ ~ret[1].nan

\* C26: the sum of the count series of count_events is the number of events in
\* the binned coverage, from the first to the last bin edge with both ends
\* included (no event when there is no bin), and each of them is counted once:
\* bin j counts the events with e_j <= t < e_(j+1), the last bin also those at
\* the last edge, and every one of several tied timestamps is counted.
C26_BinnedCoverage ==
  Returned("count_events") =>
    LET e == ret[2]
        m == Len(ret[1])
    IN /\ \A j \in 1..m :
            ret[1][j] = Cardinality({i \in DOMAIN args.times :
                                       /\ e[j] <= args.times[i]
                                       /\ \/ args.times[i] < e[j + 1]
                                          \/ j = m /\ args.times[i] = e[m + 1]})
       /\ SumInts(ret[1]) = (IF m = 0 THEN 0 ELSE EventsIn(args.times, e[1], e[m + 1]))

\* C26 witness: two tied events lie on an interior edge and were both counted in
\* the bin that starts there.
C26_Witness ==
  /\ Returned("count_events")
  /\ \E j \in 2..Len(ret[1]) :
       /\ Cardinality({i \in DOMAIN args.times : args.times[i] = ret[2][j]}) >= 2
       /\ ret[1][j] >= 2

\* C27: the edges of count_events are exactly the values t_start + j * dt,
\* j = 0, 1, 2, ..., below t_end + dt / 2, in ascending order.  For
\* t_start < t_end the number of bins is therefore (t_end - t_start) / dt
\* rounded to the nearest integer, an exact half rounded down: with r the
\* remainder of (t_end - t_start) modulo dt, the last edge lies before t_end when
\* 0 < r <= dt / 2 and after t_end when r > dt / 2.
C27_EdgesBelowHalfStep ==
  Returned("count_events") =>
    LET e == ret[2]
        t_start == args.time_range[1]
        t_end == args.time_range[2]
        dt == args.t_step
        r == WindowLength % dt
    IN /\ \A i \in DOMAIN e : e[i] = t_start + (i - 1) * dt
       /\ \A i \in DOMAIN e : 2 * e[i] < 2 * t_end + dt
       /\ 2 * (t_start + Len(e) * dt) >= 2 * t_end + dt
       /\ ValidWindow =>
            /\ Len(ret[1]) = Len(e) - 1
            /\ Len(ret[1]) = (IF 2 * r <= dt THEN WindowLength \div dt
                              ELSE WindowLength \div dt + 1)
            /\ (0 < r /\ 2 * r <= dt) => e[Len(e)] < t_end
            /\ (2 * r > dt) => e[Len(e)] > t_end

\* C27 witness: count_events has returned edges whose last one lies after t_end.
C27_Witness ==
  /\ Returned("count_events")
  /\ ValidWindow
  /\ 2 * (WindowLength % args.t_step) > args.t_step
  /\ Len(ret[1]) >= 1
  /\ ret[2][Len(ret[2])] > args.time_range[2]

\* C28: when t_end - t_start is k times the bin width, k >= 1, count_events
\* returns k bins, the last edge is t_end, the last bin counts the events at
\* t_end, and the counts sum to the number of events with t_start <= t <= t_end.
C28_ExactMultiple ==
  (Returned("count_events") /\ ValidWindow /\ WindowLength % args.t_step = 0) =>
    LET k == WindowLength \div args.t_step
        t_end == args.time_range[2]
    IN /\ Len(ret[1]) = k
       /\ ret[2][k + 1] = t_end
       /\ ret[1][k] = EventsIn(args.times, t_end - args.t_step, t_end)
       /\ SumInts(ret[1]) = EventsIn(args.times, args.time_range[1], t_end)

\* C28 witness: the window is two or more whole bins long and an event at
\* exactly t_end was counted in the last bin.
C28_Witness ==
  /\ Returned("count_events")
  /\ ValidWindow
  /\ WindowLength % args.t_step = 0
  /\ Len(ret[1]) >= 2
  /\ \E i \in DOMAIN args.times : args.times[i] = args.time_range[2]
  /\ ret[1][Len(ret[1])] >= 1

\* What the KS call of the state gives for window w, mean wait mw and bin
\* width s, everything else as in the state.
KsOutcome(w, mw, s) ==
  LET r == kolmogorov_smirnov(args.times, w, args.dist, mw, s, args.verbose)
  IN [exc |-> r.exc, ret |-> r.ret]

\* The exponential-wait part of C29 and its bin-width part: the test is made
\* on the gaps between all consecutive timestamps given, inside the window or
\* not, divided by the mean wait; with a mean_wait of the caller the outcome is
\* the same for every window; the bin width changes the outcome of no KS call.
GapsUnfiltered ==
  LET n == Len(args.times)
      mw == IF args.mean_wait = None THEN Rat(WindowLength, n) ELSE args.mean_wait[1]
      here == [exc |-> exc, ret |-> ret]
  IN /\ (ExponCall /\ pc = "returned") =>
          ret.rvs = [i \in 1..(n - 1) |->
                       RatDiv(Whole(args.times[i + 1] - args.times[i]), mw)]
     /\ (ExponCall /\ args.mean_wait # None) =>
          \A w \in Windows : KsOutcome(w, args.mean_wait, args.t_step) = here
     /\ \A s \in Steps : KsOutcome(args.time_range, args.mean_wait, s) = here

\* C29 (as stated): the gaps are unfiltered, the bin width has no influence,
\* and mean_wait changes the outcome (value or exception) of no uniform-order
\* call.
C29_MeanWaitNoInfluence ==
  Called("kolmogorov_smirnov") =>
    /\ GapsUnfiltered
    /\ UniformCall =>
         \A m \in MeanWaits :
           KsOutcome(args.time_range, m, args.t_step) = [exc |-> exc, ret |-> ret]

\* C29: the gaps are unfiltered and the bin width has no influence; mean_wait
\* changes the outcome of no uniform-order call on a catalog with an event;
\* on an empty catalog the call returns nothing either way, ending with
\* ZeroDivisionError when mean_wait is left to be inferred and with
\* ValueError when the caller gives one.
C29_NoWindowFilter ==
  Called("kolmogorov_smirnov") =>
    /\ GapsUnfiltered
    /\ UniformCall =>
         \A m \in MeanWaits :
           LET other == KsOutcome(args.time_range, m, args.t_step)
           IN IF Len(args.times) > 0
              THEN other = [exc |-> exc, ret |-> ret]
              ELSE /\ other.ret = None
                   /\ other.exc = IF m = None THEN "ZeroDivisionError" ELSE "ValueError"

\* C29 witness: an exponential-wait call with a mean_wait of the caller has
\* returned a p-value for a catalog with events before and after the window.
C29_Witness ==
  /\ ExponCall
  /\ pc = "returned"
  /\ args.mean_wait # None
  /\ ValidWindow
  /\ args.times[1] < args.time_range[1]
  /\ args.times[Len(args.times)] > args.time_range[2]
  /\ Len(ret.rvs) = Len(args.times) - 1

\* C30: for a tuple of k sequences of m p-values each, combine_pvalues returns m
\* values in index order, the j-th combining the j-th entries of the k sequences
\* and nothing else, with 2k degrees of freedom under Fisher's method; a flat
\* collection gives a single value.
C30_RowWise ==
  Returned("combine_pvalues") =>
    LET k == Len(args.p_values_tuple)
        m == Len(args.p_values_tuple[1])
        Column(j) == [i \in 1..k |-> args.p_values_tuple[i][j]]
    IN /\ Len(ret) = m
       /\ FlatCall => Len(ret) = 1
       /\ \A j \in 1..m :
            IF args.method = "fisher"
            THEN /\ ret[j].f = "chi2.sf"
                 /\ ret[j].a = 2 * k
                 /\ ret[j].x.neg2sumlog = Column(j)
            ELSE /\ ret[j].f = "norm.sf"
                 /\ ret[j].x.sumisf = Column(j)

\* C30 witness: the Combiner has returned two values for two sequences of two
\* p-values whose columns differ from the sequences.
C30_Witness ==
  /\ Returned("combine_pvalues")
  /\ args.method = "fisher"
  /\ Len(args.p_values_tuple) = 2
  /\ Len(ret) = 2
  /\ args.p_values_tuple[1][2] # args.p_values_tuple[2][1]
  /\ ret[1].x.val = "finite" /\ ret[2].x.val = "finite"

\* The data call i was handed, as it was before either call ran.
DataAtStart(i) ==
  IF calls[i].f = "combine_pvalues" THEN heap0.pv ELSE heap0.cat[calls[i].cat]

\* C21: under every interleaving of the steps of two calls, no call writes to a
\* catalog, to the window or to the p-value arrays, and each call that is done
\* holds the value it returns when run alone on the data as they were at the
\* start.
C21_NoInterference ==
  /\ heap = heap0
  /\ \A i \in DOMAIN calls :
       calls[i].at = "done" =>
         calls[i].result = RunCall(calls[i].f, DataAtStart(i), heap0.win)

\* C21 witness: a KS call and a dispersion call on the same catalog object, in a
\* window that does not start at 0, are both done, and the KS call has returned
\* a p-value.
C21_Witness ==
  /\ calls # <<>>
  /\ calls[1].at = "done" /\ calls[2].at = "done"
  /\ calls[1].f = "kolmogorov_smirnov" /\ calls[2].f = "dispersion"
  /\ calls[1].cat = calls[2].cat
  /\ heap0.win[1] > 0
  /\ calls[1].result # None

\* Both calls are count_events calls that are done, on catalogs with the same
\* contents (the window and the bin width are the same for both).
TwoBinnerCalls ==
  /\ calls # <<>>
  /\ \A i \in DOMAIN calls : calls[i].f = "count_events" /\ calls[i].at = "done"
  /\ heap0.cat[calls[1].cat] = heap0.cat[calls[2].cat]

\* C24: two calls of count_events with the same catalog, window and bin width
\* return the same count series and the same bin edges, in whatever order
\* their steps run, and these are the histogram and the edges of the three
\* inputs.
C24_BinnerDeterminism ==
  TwoBinnerCalls =>
    LET edges == BinEdges(heap0.win, DefaultStep)
    IN /\ calls[1].result = calls[2].result
       /\ calls[1].result[2] = edges
       /\ calls[1].result[1] = Histogram(heap0.cat[calls[1].cat], edges)

\* C24 witness: two count_events calls on two catalog objects with the same
\* contents are done and have counted events.
C24_Witness ==
  /\ TwoBinnerCalls
  /\ calls[1].cat # calls[2].cat
  /\ SumInts(calls[1].result[1]) >= 1
  /\ Len(calls[2].result[1]) >= 2

====
